---- MODULE Spec2Model ----
(***************************************************************************)
(* Model of the booking form of src/src/App.jsx (component App): the form  *)
(* state, the availability effect, the resource filter, the submission    *)
(* flow and cancellation.  Every await of the component is a suspension   *)
(* point: the request it waits for is kept in flight in a variable and    *)
(* its response is delivered by a separate action, in any order.  A       *)
(* continuation reads the values its closure captured when it was         *)
(* created, and the current state only through functional updates.        *)
(***************************************************************************)
EXTENDS Integers, Sequences, FiniteSets, TLC

VARIABLES
  loading,       \* useState(false), line 42
  error,         \* useState(''), line 43
  barbers,       \* visible resource list, line 45 (sequence of barber ids)
  services,      \* line 46
  appointments,  \* line 47: the last reservation list fetched
  availability,  \* line 49
  form,          \* line 51-59
  catalogReq,    \* fetchCatalog of the mount effect: "pending" or "done"
  refreshes,     \* fetchAppointments calls in flight that nothing awaits on
  probes,        \* checkAvailability requests in flight, in issue order
  passes,        \* filter passes of the effect in flight, in issue order
  subs,          \* submissions whose handler has not returned, in issue order
  cancels,       \* cancel requests in flight (reservation ids)
  ledger,        \* the collaborator's reservations: id -> status
  availQ,        \* history: the query whose probe last wrote availability
  effectPending, \* the last render changed a dependency of the availability effect
  edits,         \* history: the number of inputs the user has made
  ev             \* history: the last operation and its outcome

vars == <<loading, error, barbers, services, appointments, availability, form,
          catalogReq, refreshes, probes, passes, subs, cancels, ledger,
          effectPending, availQ, edits, ev>>

-----------------------------------------------------------------------------
\* Bounds of the model
MaxProbes == 2
MaxPasses == 2
MaxSubs == 2
MaxRefresh == 1
MaxCancels == 1
MaxRes == 2
MaxEdits == 4

\* Fallback duration, line 62
DefaultDuration == 30

\* What the collaborator serves for /api/barbers and /api/services
BarberCatalog == <<"b1", "b2">>
ServiceCatalog == << [name |-> "Haircut", duration_min |-> 30],
                     [name |-> "Shave", duration_min |-> 15] >>

\* Values the user types into the inputs
NameValues == {"", "Alex"}
PhoneValues == {"", "555"}
DateValues == {"", "2024-06-01"}
TimeValues == {"", "10:00", "11:00"}
NotesValues == {"", "fade"}

\* Messages
MsgSelectDateTime == "Please select a date and time"
MsgJustTaken == "That time was just taken. Please choose another slot."
MsgUnableToVerify == "Unable to verify availability"
MsgFailedToBook == "Failed to book appointment"
MsgFailedToCancel == "Failed to cancel appointment"
MsgFailedToLoad == "Failed to load barbers/services"
MsgFetchFailed == "Failed to fetch"
MsgServerDetail == "Barber is not available at that time"

NullIso == "null"
NoQuery == [barber_id |-> "", start_time |-> NullIso, duration_min |-> 0]

Neutral == [checking |-> FALSE, available |-> "null", message |-> ""]
Checking == [checking |-> TRUE, available |-> "null", message |-> ""]

EmptyForm == [customer_name |-> "", customer_phone |-> "", barber_id |-> "",
              service_name |-> "", start_date |-> "", start_time |-> "", notes |-> ""]

-----------------------------------------------------------------------------
\* Pure helpers

\* variant of combineDateTime: only the date is tested
combineDateTimeDateOnly(dateStr, timeStr) ==
  IF dateStr = "" THEN NullIso
  ELSE dateStr \o "T" \o timeStr \o ":00.000Z"

\* lines 111-117
combineDateTime(dateStr, timeStr) ==
  IF dateStr = "" \/ timeStr = "" THEN NullIso
  ELSE dateStr \o "T" \o timeStr \o ":00.000Z"

\* lines 61-62
duration_min(f, svcs) ==
  LET hits == {i \in 1..Len(svcs) : svcs[i].name = f.service_name}
  IN IF hits = {} THEN DefaultDuration
     ELSE LET first == CHOOSE i \in hits : \A j \in hits : i <= j
          IN IF svcs[first].duration_min = 0 THEN DefaultDuration
             ELSE svcs[first].duration_min

startIsoOf(f) == combineDateTime(f.start_date, f.start_time)

Contains(list, id) == \E i \in 1..Len(list) : list[i] = id

\* filtered[0]?.id || ''
FirstId(list) == IF Len(list) > 0 THEN list[1] ELSE ""

RemoveAt(s, i) == [j \in 1..(Len(s) - 1) |-> IF j < i THEN s[j] ELSE s[j + 1]]

\* variant of Deps: the selected resource is a dependency too
DepsWithBarber(f, svcs) ==
  <<f.barber_id, f.service_name, f.start_date, f.start_time, duration_min(f, svcs)>>

\* dependency list of the availability effect, line 178
Deps(f, svcs) == <<f.service_name, f.start_date, f.start_time, duration_min(f, svcs)>>

\* history: the outcomes that leave no other trace in the state are recorded
Tracked == {<<"submitEnd", "succeeded">>, <<"filterDone", "everyErrored">>,
            <<"filterDone", "reassigned">>, <<"cancelDone", "ok">>}
Ev(op, outcome) == IF <<op, outcome>> \in Tracked THEN [op |-> op, outcome |-> outcome]
                   ELSE [op |-> "", outcome |-> ""]

-----------------------------------------------------------------------------
\* Initial state: the first render, after the mount effects ran.  The ledger
\* already holds one reservation, booked in an earlier session.  The mount
\* effect (lines 100-104) has issued fetchCatalog and fetchAppointments; the
\* availability effect (lines 166-178) ran with the empty form: neutral
\* status, no probe, and a pass over the empty list that changes nothing.
Init ==
  /\ loading = FALSE
  /\ error = ""
  /\ barbers = <<>>
  /\ services = <<>>
  /\ appointments = [id \in 1..MaxRes |-> "none"]
  /\ availability = Neutral
  /\ form = EmptyForm
  /\ catalogReq = "pending"
  /\ refreshes = 1
  /\ probes = <<>>
  /\ passes = <<>>
  /\ subs = <<>>
  /\ cancels = <<>>
  /\ ledger = [id \in 1..MaxRes |-> IF id = 1 THEN "booked" ELSE "none"]
  /\ effectPending = FALSE
  /\ availQ = NoQuery
  /\ edits = 0
  /\ ev = Ev("mount", "")

-----------------------------------------------------------------------------
\* The availability effect, lines 166-178

\* history only: a newer checkAvailability call supersedes the probes in flight
Supersede(ps) == [i \in 1..Len(ps) |-> [ps[i] EXCEPT !.superseded = TRUE]]

\* history only: a pass that applied its result makes the passes issued
\* before it (the first n in flight) late
MarkLate(ps, n) == [i \in 1..Len(ps) |-> IF i <= n THEN [ps[i] EXCEPT !.late = TRUE] ELSE ps[i]]

\* checkAvailability up to its await, lines 120-133, in the render (f, svcs)
checkAvailability(f, svcs) ==
  LET startIso == startIsoOf(f)
      d == duration_min(f, svcs)
      q == [barber_id |-> f.barber_id, start_time |-> startIso, duration_min |-> d]
  IN IF f.barber_id = "" \/ startIso = NullIso \/ d = 0
     THEN /\ availability' = Neutral
          /\ availQ' = NoQuery
          /\ probes' = Supersede(probes)
     ELSE /\ availability' = Checking
          /\ availQ' = q
          /\ probes' = Append(Supersede(probes), [q |-> q, superseded |-> FALSE])

\* lines 173-175: cb is the barber_id of the closure, cur the form the
\* functional update is applied to
Reassign(cur, cb, filtered) ==
  IF cb # "" /\ ~Contains(filtered, cb)
  THEN [cur EXCEPT !.barber_id = FirstId(filtered)]
  ELSE cur

\* the resources the filter probes: its argument, by default the visible list
\* of the render that created the closure (line 143)
filterTargets(bs) == bs

\* the async block of the effect, lines 169-176, in the render (f, bs, svcs):
\* filterBarbersByAvailability returns at once when there is no instant (line
\* 145) or nothing to probe; otherwise the pass waits for its probes
filterPass(f, bs, svcs) ==
  LET startIso == startIsoOf(f)
      d == duration_min(f, svcs)
      all == filterTargets(bs)
  IN IF startIso = NullIso \/ d = 0 \/ Len(all) = 0
     THEN /\ barbers' = all
          /\ form' = Reassign(f, f.barber_id, all)
          /\ passes' = MarkLate(passes, Len(passes))
     ELSE /\ barbers' = bs
          /\ form' = f
          /\ passes' = Append(passes,
                 [allBarbers |-> all, barber_id |-> f.barber_id, start_time |-> startIso,
                  duration_min |-> d, late |-> FALSE])

DepsChanged(f, svcs) == Deps(f, svcs) # Deps(form, services)

\* room for the requests a render would issue (the bounds of the model)
Room(f, bs, svcs) ==
  (DepsChanged(f, svcs) /\ startIsoOf(f) # NullIso) =>
     /\ f.barber_id # "" => Len(probes) < MaxProbes
     /\ Len(bs) > 0 => Len(passes) < MaxPasses

\* a render with the new form and services: React runs the effect after it
\* when one of the dependencies of line 178 changed, and only then
Render(f, svcs) == effectPending' = DepsChanged(f, svcs)

\* the effect, lines 166-176, in the render that scheduled it: checkAvailability
\* up to its await, and the filter pass up to its await (or to its end when
\* there is nothing to wait for)
availabilityEffect ==
  /\ effectPending
  /\ checkAvailability(form, services)
  /\ filterPass(form, barbers, services)
  /\ Render(form', services)
  /\ ev' = Ev("effect", "")
  /\ UNCHANGED <<edits, loading, error, services, appointments, catalogReq, refreshes,
                 subs, cancels, ledger>>

-----------------------------------------------------------------------------
\* User input

FieldValues(name) ==
  CASE name = "customer_name" -> NameValues
    [] name = "customer_phone" -> PhoneValues
    [] name = "barber_id" -> {barbers[i] : i \in 1..Len(barbers)}
    [] name = "service_name" -> {services[i].name : i \in 1..Len(services)}
    [] name = "start_date" -> DateValues
    [] name = "start_time" -> TimeValues
    [] name = "notes" -> NotesValues

\* lines 106-109
handleChange(name, value) ==
  LET f == [form EXCEPT ![name] = value]
  IN /\ value # form[name]
     /\ edits < MaxEdits
     /\ edits' = edits + 1
     /\ Room(f, barbers, services)
     /\ form' = f
     /\ Render(f, services)
     /\ ev' = Ev("handleChange", "")
     /\ UNCHANGED <<loading, error, barbers, services, appointments, availability,
                    catalogReq, refreshes, probes, passes, subs, cancels, ledger, availQ>>

\* line 421
selectBarber(b) ==
  /\ b # form.barber_id
  /\ edits < MaxEdits
  /\ edits' = edits + 1
  /\ form' = [form EXCEPT !.barber_id = b]
  /\ Render(form', services)
  /\ ev' = Ev("selectBarber", "")
  /\ UNCHANGED <<loading, error, barbers, services, appointments, availability,
                 catalogReq, refreshes, probes, passes, subs, cancels, ledger, availQ>>

-----------------------------------------------------------------------------
\* Responses of the availability probes

ProbeOutcomes == {"available", "busy", "notok", "failed"}

\* lines 134-139
availabilityOf(outcome) ==
  CASE outcome = "available" ->
         [checking |-> FALSE, available |-> "true", message |-> "Time is available"]
    [] outcome = "busy" ->
         [checking |-> FALSE, available |-> "false", message |-> "Time slot not available"]
    [] OTHER ->
         [checking |-> FALSE, available |-> "null", message |-> "Unable to check availability"]

\* the response of checkAvailability's request i arrives, lines 133-139
checkAvailabilityDone(i, outcome) ==
  /\ i \in 1..Len(probes)
  /\ availability' = availabilityOf(outcome)
  /\ availQ' = probes[i].q
  /\ probes' = RemoveAt(probes, i)
  /\ ev' = Ev("checkAvailability", outcome)
  /\ UNCHANGED <<effectPending, edits, loading, error, barbers, services, appointments, form, catalogReq,
                 refreshes, passes, subs, cancels, ledger>>

\* variant of checkResult: a probe that is not OK counts as unavailable
checkResultStrict(outcome) == outcome = "available"

\* lines 154-156: what one settled probe contributes to the checks
checkResult(outcome) == outcome # "busy"

\* Promise.all of line 147 rejects when a fetch (or the parsing of its body)
\* fails; the catch of line 160 then returns the list the filter was given
fanOutRejected(outcomes) == \E k \in DOMAIN outcomes : outcomes[k] = "failed"

\* lines 158-161: the list the filter returns for the responses of its probes
filteredOf(allBarbers, outcomes) ==
  IF fanOutRejected(outcomes) THEN allBarbers
  ELSE SelectSeq([k \in 1..Len(allBarbers) |->
                    IF checkResult(outcomes[k]) THEN allBarbers[k] ELSE ""],
                 LAMBDA x : x # "")

EveryErrored(outcomes) == \A k \in DOMAIN outcomes : outcomes[k] \in {"notok", "failed"}

\* the probes of pass i have settled with the given outcomes (or one of them
\* failed): lines 147-162, then lines 171-175.  What the probes return stays
\* local to the pass until Promise.all settles, so the responses are
\* delivered in one step.
filterDone(i, outcomes) ==
  /\ i \in 1..Len(passes)
  /\ DOMAIN outcomes = 1..Len(passes[i].allBarbers)
  /\ LET p == passes[i]
         filtered == filteredOf(p.allBarbers, outcomes)
     IN /\ barbers' = filtered
        /\ form' = Reassign(form, p.barber_id, filtered)
        /\ passes' = RemoveAt(MarkLate(passes, i - 1), i)
        /\ Render(form', services)
        /\ ev' = Ev("filterDone", IF EveryErrored(outcomes) THEN "everyErrored"
                                  ELSE IF form' # form THEN "reassigned" ELSE "")
  /\ UNCHANGED <<edits, loading, error, services, appointments, availability, catalogReq,
                 refreshes, probes, subs, cancels, ledger, availQ>>

-----------------------------------------------------------------------------
\* Catalog load and reservation list

\* the form fetchCatalog's closure reads: the one of the mount render, the
\* only render whose fetchCatalog is ever called (lines 100-104)
fetchCatalogForm == EmptyForm

\* lines 78-83: seed the defaults the closure's form lacks, as functional
\* updates of the current form
seedDefaults(cur, closure, filteredBarbers, sData) ==
  LET withBarber == IF closure.barber_id = "" /\ FirstId(filteredBarbers) # ""
                    THEN [cur EXCEPT !.barber_id = FirstId(filteredBarbers)]
                    ELSE cur
  IN IF closure.service_name = "" /\ Len(sData) > 0 /\ sData[1].name # ""
     THEN [withBarber EXCEPT !.service_name = sData[1].name]
     ELSE withBarber

\* the responses of lines 66-70 arrive; lines 73-87.  The filter of line 73
\* reads the closure's form, which has no instant, and returns bData (line 145)
fetchCatalogDone(outcome) ==
  /\ catalogReq = "pending"
  /\ catalogReq' = "done"
  /\ ev' = Ev("fetchCatalog", outcome)
  /\ IF outcome = "ok"
     THEN LET filteredBarbers == BarberCatalog
              f == seedDefaults(form, fetchCatalogForm, filteredBarbers, ServiceCatalog)
          IN /\ startIsoOf(fetchCatalogForm) = NullIso
             /\ Room(f, filteredBarbers, ServiceCatalog)
             /\ services' = ServiceCatalog
             /\ barbers' = filteredBarbers
             /\ form' = f
             /\ Render(f, ServiceCatalog)
             /\ UNCHANGED error
     ELSE /\ error' = MsgFailedToLoad
          /\ UNCHANGED <<barbers, services, form, effectPending>>
  /\ UNCHANGED <<edits, loading, appointments, availability, refreshes, probes, passes,
                 subs, cancels, ledger, availQ>>

\* the Refresh button, line 407
refresh ==
  /\ refreshes < MaxRefresh
  /\ refreshes' = refreshes + 1
  /\ ev' = Ev("refresh", "")
  /\ UNCHANGED <<effectPending, edits, loading, error, barbers, services, appointments, availability, form,
                 catalogReq, probes, passes, subs, cancels, ledger, availQ>>

\* lines 92-97: the list fetched replaces the visible one; a failure is logged
fetchedAppointments(outcome) == IF outcome = "ok" THEN ledger ELSE appointments

\* the response of a fetchAppointments nobody awaits arrives, lines 90-98
fetchAppointmentsDone(outcome) ==
  /\ refreshes > 0
  /\ refreshes' = refreshes - 1
  /\ appointments' = fetchedAppointments(outcome)
  /\ ev' = Ev("fetchAppointments", outcome)
  /\ UNCHANGED <<effectPending, edits, loading, error, barbers, services, availability, form, catalogReq,
                 probes, passes, subs, cancels, ledger, availQ>>

-----------------------------------------------------------------------------
\* Submission, lines 180-237

\* line 337
submitEnabled == ~loading /\ availability.available # "false"

\* lines 193-197: the final probe's parameters
ProbeParams(s) == [barber_id |-> s.f.barber_id, start_time |-> s.startIso,
                   duration_min |-> s.d]

\* variant of Payload: the start is the text of the inputs, not the instant
PayloadRawStart(s) ==
  [customer_name |-> s.f.customer_name, customer_phone |-> s.f.customer_phone,
   barber_id |-> s.f.barber_id, service_name |-> s.f.service_name,
   start_time |-> s.f.start_date \o " " \o s.f.start_time, duration_min |-> s.d,
   notes |-> s.f.notes]

\* lines 210-218 (notes "" stands for the omitted field)
Payload(s) == [customer_name |-> s.f.customer_name, customer_phone |-> s.f.customer_phone,
               barber_id |-> s.f.barber_id, service_name |-> s.f.service_name,
               start_time |-> s.startIso, duration_min |-> s.d, notes |-> s.f.notes]

\* variant of submitValid: only the date is looked at
submitValidDateOnly(f) == f.start_date # ""

\* lines 185-190: whether the handler goes on to the final probe
submitValid(f) == startIsoOf(f) # NullIso

\* the inputs marked required, lines 271, 283, 314 and 318
requiredFilled(f) == /\ f.customer_name # "" /\ f.customer_phone # ""
                     /\ f.start_date # "" /\ f.start_time # ""

\* the submit event, lines 180-198.  validated: the event comes from
\* the button of a browser that checks the required inputs first; otherwise
\* the event reaches the handler whatever the inputs hold
submit(validated) ==
  /\ submitEnabled
  /\ validated => requiredFilled(form)
  /\ IF ~submitValid(form)
     THEN /\ error' = MsgSelectDateTime
          /\ loading' = FALSE
          /\ ev' = Ev("submit", "incomplete")
          /\ UNCHANGED subs
     ELSE /\ Len(subs) < MaxSubs
          /\ error' = ""
          /\ loading' = TRUE
          /\ subs' = Append(subs, [pc |-> "verifying", f |-> form,
                                   d |-> duration_min(form, services),
                                   startIso |-> startIsoOf(form)])
          /\ ev' = Ev("submit", "verifying")
  /\ UNCHANGED <<effectPending, edits, barbers, services, appointments, availability, form, catalogReq,
                 refreshes, probes, passes, cancels, ledger, availQ>>

\* variant of verifyStep: a final probe that is not OK lets the booking go on
verifyStepFailOpen(outcome) ==
  CASE outcome \in {"available", "notok"} -> "commit"
    [] outcome = "busy" -> "rejected"
    [] OTHER -> "throw"

\* variant of verifyStep: the answer of the final probe is not looked at
verifyStepIgnoreBusy(outcome) ==
  CASE outcome \in {"available", "busy"} -> "commit"
    [] OTHER -> "throw"

\* lines 198-208: what the handler does with the final probe's response
verifyStep(outcome) ==
  CASE outcome = "available" -> "commit"
    [] outcome = "busy" -> "rejected"
    [] OTHER -> "throw"

\* e.message of line 233 for the final probe
verifyMessage(outcome) == IF outcome = "notok" THEN MsgUnableToVerify ELSE MsgFetchFailed

\* the final probe's response arrives, lines 198-218 and 232-236
submitProbeDone(i, outcome) ==
  /\ i \in 1..Len(subs)
  /\ subs[i].pc = "verifying"
  /\ ev' = Ev("finalProbe", outcome)
  /\ CASE verifyStep(outcome) = "commit" ->
            /\ subs' = [subs EXCEPT ![i].pc = "committing"]
            /\ UNCHANGED <<error, loading>>
       [] verifyStep(outcome) = "rejected" ->
            /\ error' = MsgJustTaken
            /\ loading' = FALSE
            /\ subs' = [subs EXCEPT ![i].pc = "refreshRejected"]
       [] OTHER ->
            /\ error' = verifyMessage(outcome)
            /\ loading' = FALSE
            /\ subs' = RemoveAt(subs, i)
  /\ UNCHANGED <<effectPending, edits, barbers, services, appointments, availability, form, catalogReq,
                 refreshes, probes, passes, cancels, ledger, availQ>>

CreateOutcomes == {"accepted", "rejectedDetail", "rejectedPlain", "failed"}

\* variant of createMessage: the collaborator's reason is dropped
createMessageGeneric(outcome) ==
  IF outcome = "failed" THEN MsgFetchFailed ELSE MsgFailedToBook

\* lines 224-227 and 233
createMessage(outcome) ==
  CASE outcome = "rejectedDetail" -> MsgServerDetail
    [] outcome = "rejectedPlain" -> MsgFailedToBook
    [] OTHER -> MsgFetchFailed

FreeIds == {id \in 1..MaxRes : ledger[id] = "none"}

\* the response of the create request arrives, lines 219-229 and 232-236
createDone(i, outcome) ==
  /\ i \in 1..Len(subs)
  /\ subs[i].pc = "committing"
  /\ ev' = Ev("create", outcome)
  /\ IF outcome = "accepted"
     THEN /\ FreeIds # {}
          /\ ledger' = [ledger EXCEPT ![CHOOSE id \in FreeIds : \A j \in FreeIds : id <= j]
                                         = "booked"]
          /\ subs' = [subs EXCEPT ![i].pc = "refreshSucceeded"]
          /\ UNCHANGED <<error, loading>>
     ELSE /\ error' = createMessage(outcome)
          /\ loading' = FALSE
          /\ subs' = RemoveAt(subs, i)
          /\ UNCHANGED ledger
  /\ UNCHANGED <<effectPending, edits, barbers, services, appointments, availability, form, catalogReq,
                 refreshes, probes, passes, cancels, availQ>>

\* variant of resetDraft: the notes are kept
resetDraftKeepNotes(f) == [f EXCEPT !.start_date = "", !.start_time = ""]

\* line 230
resetDraft(f) == [f EXCEPT !.start_date = "", !.start_time = "", !.notes = ""]

\* the response of the fetchAppointments a submission awaits arrives:
\* line 206-207 and 234-236 after a rejection, lines 229-236 after a success
submitRefreshDone(i, outcome) ==
  /\ i \in 1..Len(subs)
  /\ subs[i].pc \in {"refreshRejected", "refreshSucceeded"}
  /\ appointments' = fetchedAppointments(outcome)
  /\ loading' = FALSE
  /\ subs' = RemoveAt(subs, i)
  /\ IF subs[i].pc = "refreshSucceeded"
     THEN /\ form' = resetDraft(form)
          /\ availability' = Neutral
          /\ availQ' = NoQuery
          /\ Render(resetDraft(form), services)
          /\ ev' = Ev("submitEnd", "succeeded")
     ELSE /\ ev' = Ev("submitEnd", "rejected")
          /\ UNCHANGED <<form, availability, availQ, effectPending>>
  /\ UNCHANGED <<edits, error, barbers, services, catalogReq, refreshes, probes, passes,
                 cancels, ledger>>

-----------------------------------------------------------------------------
\* Cancellation, lines 239-247

\* the Cancel button of a booked reservation, lines 391-393 and 241
cancel(id) ==
  /\ appointments[id] = "booked"
  /\ Len(cancels) < MaxCancels
  /\ cancels' = Append(cancels, id)
  /\ ev' = Ev("cancel", "")
  /\ UNCHANGED <<effectPending, edits, loading, error, barbers, services, appointments, availability, form,
                 catalogReq, refreshes, probes, passes, subs, ledger, availQ>>

\* variant of cancelOk: the response is not looked at
cancelOkAlways(outcome) == TRUE

\* line 242: whether the handler goes on to the refresh
cancelOk(outcome) == outcome = "ok"

\* lines 242 and 245
cancelMessage(outcome) == IF outcome = "notok" THEN MsgFailedToCancel ELSE MsgFetchFailed

\* the response of the cancel request arrives, lines 241-246
cancelDone(i, outcome) ==
  /\ i \in 1..Len(cancels)
  /\ cancels' = RemoveAt(cancels, i)
  /\ ev' = Ev("cancelDone", outcome)
  /\ ledger' = IF outcome = "ok" THEN [ledger EXCEPT ![cancels[i]] = "canceled"] ELSE ledger
  /\ IF cancelOk(outcome)
     THEN /\ refreshes < MaxRefresh
          /\ refreshes' = refreshes + 1
          /\ UNCHANGED error
     ELSE /\ error' = cancelMessage(outcome)
          /\ UNCHANGED refreshes
  /\ UNCHANGED <<effectPending, edits, loading, barbers, services, appointments, availability, form,
                 catalogReq, probes, passes, subs, availQ>>

-----------------------------------------------------------------------------
FieldNames == {"customer_name", "customer_phone", "barber_id", "service_name",
               "start_date", "start_time", "notes"}

\* The effect of a render runs before the next event is handled.

Next ==
  \/ availabilityEffect
  \/ /\ ~effectPending
     /\ \/ \E name \in FieldNames : \E value \in FieldValues(name) : handleChange(name, value)
        \/ \E i \in 1..Len(barbers) : selectBarber(barbers[i])
        \/ \E i \in 1..Len(probes), o \in ProbeOutcomes : checkAvailabilityDone(i, o)
        \/ \E i \in 1..Len(passes) :
              \E outcomes \in [1..Len(passes[i].allBarbers) -> ProbeOutcomes] :
                 filterDone(i, outcomes)
        \/ \E o \in {"ok", "failed"} : fetchCatalogDone(o)
        \/ refresh
        \/ \E o \in {"ok", "failed"} : fetchAppointmentsDone(o)
        \/ \E validated \in BOOLEAN : submit(validated)
        \/ \E i \in 1..Len(subs), o \in ProbeOutcomes : submitProbeDone(i, o)
        \/ \E i \in 1..Len(subs), o \in CreateOutcomes : createDone(i, o)
        \/ \E i \in 1..Len(subs), o \in {"ok", "failed"} : submitRefreshDone(i, o)
        \/ \E id \in 1..MaxRes : cancel(id)
        \/ \E i \in 1..Len(cancels), o \in {"ok", "notok", "failed"} : cancelDone(i, o)

Spec == Init /\ [][Next]_vars

-----------------------------------------------------------------------------
\* Scoped specifications: the same operations, with the user restricted to
\* the inputs of one concern.

FilterFields == {"barber_id", "service_name", "start_date", "start_time"}

\* the user edits the selections; no submission
NextFilter ==
  \/ availabilityEffect
  \/ /\ ~effectPending
     /\ \/ \E name \in FilterFields : \E value \in FieldValues(name) : handleChange(name, value)
        \/ \E i \in 1..Len(barbers) : selectBarber(barbers[i])
        \/ \E i \in 1..Len(probes), o \in ProbeOutcomes : checkAvailabilityDone(i, o)
        \/ \E i \in 1..Len(passes) :
              \E outcomes \in [1..Len(passes[i].allBarbers) -> ProbeOutcomes] :
                 filterDone(i, outcomes)
        \/ \E o \in {"ok", "failed"} : fetchCatalogDone(o)

SpecFilter == Init /\ [][NextFilter]_vars

SubmitFields == {"customer_name", "customer_phone", "start_date", "start_time", "notes"}

\* the user fills the form and submits when no submission is in progress
NextSubmit ==
  \/ availabilityEffect
  \/ /\ ~effectPending
     /\ \/ \E name \in SubmitFields : \E value \in FieldValues(name) : handleChange(name, value)
        \/ \E i \in 1..Len(probes), o \in ProbeOutcomes : checkAvailabilityDone(i, o)
        \/ \E i \in 1..Len(passes) :
              \E outcomes \in [1..Len(passes[i].allBarbers) -> ProbeOutcomes] :
                 filterDone(i, outcomes)
        \/ \E o \in {"ok", "failed"} : fetchCatalogDone(o)
        \/ \E validated \in BOOLEAN : subs = <<>> /\ submit(validated)
        \/ \E i \in 1..Len(subs), o \in ProbeOutcomes : submitProbeDone(i, o)
        \/ \E i \in 1..Len(subs), o \in CreateOutcomes : createDone(i, o)
        \/ \E i \in 1..Len(subs), o \in {"ok", "failed"} : submitRefreshDone(i, o)

SpecSubmit == Init /\ [][NextSubmit]_vars

\* the same, every submit event coming from the button of a validating browser
NextInteractive ==
  \/ availabilityEffect
  \/ /\ ~effectPending
     /\ \/ \E name \in SubmitFields : \E value \in FieldValues(name) : handleChange(name, value)
        \/ \E i \in 1..Len(probes), o \in ProbeOutcomes : checkAvailabilityDone(i, o)
        \/ \E i \in 1..Len(passes) :
              \E outcomes \in [1..Len(passes[i].allBarbers) -> ProbeOutcomes] :
                 filterDone(i, outcomes)
        \/ \E o \in {"ok", "failed"} : fetchCatalogDone(o)
        \/ subs = <<>> /\ submit(TRUE)
        \/ \E i \in 1..Len(subs), o \in ProbeOutcomes : submitProbeDone(i, o)
        \/ \E i \in 1..Len(subs), o \in CreateOutcomes : createDone(i, o)
        \/ \E i \in 1..Len(subs), o \in {"ok", "failed"} : submitRefreshDone(i, o)

SpecInteractive == Init /\ [][NextInteractive]_vars

\* the user works on the reservation list
NextCancel ==
  \/ availabilityEffect
  \/ /\ ~effectPending
     /\ \/ \E name \in {"start_date", "start_time"} : \E value \in FieldValues(name) :
              handleChange(name, value)
        \/ \E o \in {"ok", "failed"} : fetchCatalogDone(o)
        \/ refresh
        \/ \E o \in {"ok", "failed"} : fetchAppointmentsDone(o)
        \/ \E id \in 1..MaxRes : cancel(id)
        \/ \E i \in 1..Len(cancels), o \in {"ok", "notok", "failed"} : cancelDone(i, o)

SpecCancel == Init /\ [][NextCancel]_vars

-----------------------------------------------------------------------------
\* Properties

CreatesInFlight == Cardinality({i \in 1..Len(subs) : subs[i].pc = "committing"})
AwaitedRefreshes ==
  Cardinality({i \in 1..Len(subs) : subs[i].pc \in {"refreshRejected", "refreshSucceeded"}})
RefreshesInFlight == refreshes + AwaitedRefreshes
RequestsInFlight == <<catalogReq, refreshes, probes, passes, subs, cancels>>

\* C1: fail-closed.  When the final probe of a submission errors (a response
\* that is not OK, or a transport failure), the submission is over without a
\* create request having been sent, the error message is not empty and the
\* form is as it was.
C1_FailClosed ==
  [][\A i \in 1..Len(subs) : \A o \in {"notok", "failed"} :
        submitProbeDone(i, o) =>
          /\ subs' = RemoveAt(subs, i)
          /\ CreatesInFlight' = CreatesInFlight
          /\ error' # ""
          /\ form' = form]_vars

\* a submission ended on a final probe that was not OK
C1_Witness == error = MsgUnableToVerify /\ subs = <<>> /\ ~loading

\* C2: when the final probe reports Busy, no create request is sent, the
\* error is the 'slot just taken' message, a refresh of the reservation list
\* is issued, and the form keeps every value, also when that refresh returns
\* and the submission ends.
C2_BusyRejected ==
  [][/\ \A i \in 1..Len(subs) :
          submitProbeDone(i, "busy") =>
            /\ error' = MsgJustTaken
            /\ subs'[i].pc = "refreshRejected"
            /\ RefreshesInFlight' = RefreshesInFlight + 1
            /\ CreatesInFlight' = CreatesInFlight
            /\ form' = form
     /\ \A i \in 1..Len(subs) : \A o \in {"ok", "failed"} :
          (subs[i].pc = "refreshRejected" /\ submitRefreshDone(i, o)) =>
            /\ subs' = RemoveAt(subs, i)
            /\ CreatesInFlight' = CreatesInFlight
            /\ form' = form]_vars

\* a submission was rejected as Busy and its refresh is in flight
C2_Witness ==
  /\ error = MsgJustTaken
  /\ \E i \in 1..Len(subs) : subs[i].pc = "refreshRejected"

\* C3: when the ledger accepts the create request, a refresh of the
\* reservation list is issued, and at the end of the submission date, time
\* and notes are empty, name, phone, resource and service are unchanged and
\* the availability status is neutral.
C3_SucceededResets ==
  [][/\ \A i \in 1..Len(subs) :
          createDone(i, "accepted") =>
            /\ subs'[i].pc = "refreshSucceeded"
            /\ RefreshesInFlight' = RefreshesInFlight + 1
            /\ form' = form
     /\ \A i \in 1..Len(subs) : \A o \in {"ok", "failed"} :
          (subs[i].pc = "refreshSucceeded" /\ submitRefreshDone(i, o)) =>
            /\ subs' = RemoveAt(subs, i)
            /\ form'.start_date = "" /\ form'.start_time = "" /\ form'.notes = ""
            /\ form'.customer_name = form.customer_name
            /\ form'.customer_phone = form.customer_phone
            /\ form'.barber_id = form.barber_id
            /\ form'.service_name = form.service_name
            /\ availability' = Neutral]_vars

\* a submission of a named customer for a selected barber has just succeeded
C3_Witness ==
  /\ ev = [op |-> "submitEnd", outcome |-> "succeeded"]
  /\ form.start_date = "" /\ form.start_time = "" /\ form.notes = ""
  /\ form.customer_name # "" /\ form.barber_id # "" /\ form.service_name # ""
  /\ availability = Neutral

\* C4: a submission made while the date or the time is empty sets the error
\* 'Please select a date and time', ends with loading = false and issues no
\* request of any kind.
C4_IncompleteRejected ==
  [][((form.start_date = "" \/ form.start_time = "") /\ \E v \in BOOLEAN : submit(v)) =>
        /\ error' = MsgSelectDateTime
        /\ loading' = FALSE
        /\ RequestsInFlight' = RequestsInFlight]_vars

\* a submission without a time was rejected
C4_Witness ==
  /\ error = MsgSelectDateTime
  /\ form.start_date # "" /\ form.start_time = ""
  /\ ~loading /\ subs = <<>>

\* C5: no final probe and no create request is sent for a draft whose
\* resource, service, name or phone is empty.
C5_SubmittableOnlyWhenComplete ==
  \A i \in 1..Len(subs) :
    /\ ProbeParams(subs[i]).barber_id # ""
    /\ Payload(subs[i]).barber_id # ""
    /\ Payload(subs[i]).service_name # ""
    /\ Payload(subs[i]).customer_name # ""
    /\ Payload(subs[i]).customer_phone # ""

\* the status was written for the date, time and duration now in the form
StatusCurrent ==
  \/ availQ = NoQuery
  \/ /\ availQ.start_time = startIsoOf(form)
     /\ availQ.duration_min = duration_min(form, services)

\* C6: the response of a checkAvailability call that a newer call has
\* superseded never overwrites the availability status, and once no probe is
\* in flight the status is the one for the date, time and duration in the form.
C6_NoStaleAvailability ==
  [][/\ \A i \in 1..Len(probes) : \A o \in ProbeOutcomes :
          (probes[i].superseded /\ checkAvailabilityDone(i, o)) =>
            availability' = availability
     /\ (probes' = <<>> /\ ~effectPending') => StatusCurrent']_vars

\* C7: every filter pass with an instant probes every resource of the catalog.
C7_PassProbesFullCatalog ==
  \A i \in 1..Len(passes) : passes[i].allBarbers = BarberCatalog

\* C8: when a filter pass completes, a selection that is absent from the new
\* visible list becomes the first entry of that list (or none), and a
\* selection that is in the list is not changed.
C8_ReassignCurrentSelection ==
  [][\A i \in 1..Len(passes) :
       \A outcomes \in [1..Len(passes[i].allBarbers) -> ProbeOutcomes] :
          (form.barber_id # "" /\ filterDone(i, outcomes)) =>
            IF Contains(barbers', form.barber_id)
            THEN form'.barber_id = form.barber_id
            ELSE form'.barber_id = FirstId(barbers')]_vars

\* C9: fail-open.  When every probe of a pass errors, the list the pass
\* makes visible is the list the filter was given, in the same order.
C9_FailOpen ==
  [][\A i \in 1..Len(passes) :
       \A outcomes \in [1..Len(passes[i].allBarbers) -> ProbeOutcomes] :
          (EveryErrored(outcomes) /\ filterDone(i, outcomes)) =>
            barbers' = passes[i].allBarbers]_vars

\* a pass over the two barbers has ended with every probe in error
C9_Witness ==
  /\ ev = [op |-> "filterDone", outcome |-> "everyErrored"]
  /\ barbers = BarberCatalog

\* C10: a cancel that succeeds issues a refresh, one that fails surfaces an
\* error and issues none; neither changes the reservation list, the draft or
\* the resource list, and the reservation list changes only when the
\* response of a refresh arrives.
C10_CancelRefreshesOrSurfaces ==
  [][/\ \A i \in 1..Len(cancels) : \A o \in {"ok", "notok", "failed"} :
          cancelDone(i, o) =>
            /\ appointments' = appointments
            /\ form' = form
            /\ barbers' = barbers
            /\ IF o = "ok" THEN refreshes' = refreshes + 1
               ELSE error' # "" /\ refreshes' = refreshes
     /\ appointments' # appointments => RefreshesInFlight' = RefreshesInFlight - 1]_vars

\* a cancel has succeeded: the ledger has the reservation canceled, the
\* visible list still shows it booked, and the refresh is in flight
C10_Witness ==
  /\ ev = [op |-> "cancelDone", outcome |-> "ok"]
  /\ ledger[1] = "canceled"
  /\ appointments[1] = "booked"
  /\ refreshes = 1

\* C11: when the ledger rejects the create request, the submission is over
\* with the reason the collaborator gave as the error, or 'Failed to book
\* appointment' when it gave none; the form and the availability status are
\* as they were and no refresh of the reservation list is issued.
C11_CreateRejectedFails ==
  [][\A i \in 1..Len(subs) : \A o \in {"rejectedDetail", "rejectedPlain"} :
        createDone(i, o) =>
          /\ error' = (IF o = "rejectedDetail" THEN MsgServerDetail ELSE MsgFailedToBook)
          /\ subs' = RemoveAt(subs, i)
          /\ form' = form
          /\ availability' = availability
          /\ appointments' = appointments
          /\ RefreshesInFlight' = RefreshesInFlight]_vars

\* a submission ended on the collaborator's reason, the draft still complete
C11_Witness ==
  /\ error = MsgServerDetail
  /\ subs = <<>> /\ ~loading
  /\ form.start_date # "" /\ form.start_time # ""

\* C12: when the catalog arrives while the draft holds a date and a time,
\* the catalog load starts a filter pass over the catalog for that instant.
C12_CatalogLoadHonoursInstant ==
  [][(startIsoOf(form) # NullIso /\ fetchCatalogDone("ok")) =>
        /\ Len(passes') = Len(passes) + 1
        /\ passes'[Len(passes')].allBarbers = BarberCatalog
        /\ passes'[Len(passes')].start_time = startIsoOf(form)]_vars

\* C13: a run of the availability effect while the date or the time is empty
\* sets the status to neutral, issues no probe and starts no fan-out, and
\* leaves the visible list and the selected resource as they were.
C13_NullInstantPassChangesNothing ==
  [][(startIsoOf(form) = NullIso /\ availabilityEffect) =>
        /\ availability' = Neutral
        /\ Len(probes') = Len(probes)
        /\ Len(passes') = Len(passes)
        /\ barbers' = barbers
        /\ form'.barber_id = form.barber_id]_vars

-----------------------------------------------------------------------------
\* The time normalizer on its own

\* a call of combineDateTime on the draft's date and time whose result goes
\* nowhere but to the page (the hint of line 297): history only
normalize ==
  /\ ev' = [op |-> "combineDateTime",
            outcome |-> combineDateTime(form.start_date, form.start_time)]
  /\ UNCHANGED <<loading, error, barbers, services, appointments, availability, form,
                 catalogReq, refreshes, probes, passes, subs, cancels, ledger,
                 effectPending, availQ, edits>>

\* the user edits the date and the time and submits while the catalog is
\* still on its way; the normalizer is called in every state
NextNormalizer ==
  \/ availabilityEffect
  \/ /\ ~effectPending
     /\ \/ \E name \in {"start_date", "start_time"} : \E value \in FieldValues(name) :
              handleChange(name, value)
        \/ \E validated \in BOOLEAN : subs = <<>> /\ submit(validated)
        \/ \E i \in 1..Len(subs), o \in ProbeOutcomes : submitProbeDone(i, o)
        \/ \E i \in 1..Len(subs), o \in CreateOutcomes : createDone(i, o)
        \/ \E i \in 1..Len(subs), o \in {"ok", "failed"} : submitRefreshDone(i, o)
        \/ normalize

SpecNormalizer == Init /\ [][NextNormalizer]_vars

C15_LatePassIgnored ==
  [][\A i \in 1..Len(passes) :
       \A outcomes \in [1..Len(passes[i].allBarbers) -> ProbeOutcomes] :
          (passes[i].late /\ startIsoOf(form) # NullIso /\ filterDone(i, outcomes)) =>
            /\ barbers' = barbers
            /\ form'.barber_id = form.barber_id]_vars

\* C16: a resource whose probe reported Busy is not in the list its pass
\* makes visible, whatever the probes of the other resources returned.
C16_BusyNeverListed ==
  [][\A i \in 1..Len(passes) :
       \A outcomes \in [1..Len(passes[i].allBarbers) -> ProbeOutcomes] :
          filterDone(i, outcomes) =>
            \A k \in 1..Len(passes[i].allBarbers) :
               outcomes[k] = "busy" => ~Contains(barbers', passes[i].allBarbers[k])]_vars

\* C17: when the selected resource changes while the date and the time are
\* set, a run of the availability effect is scheduled or a probe for the
\* newly selected resource is in flight.
C17_ResourceChangeReprobes ==
  [][(/\ form'.barber_id # form.barber_id
      /\ form'.barber_id # ""
      /\ startIsoOf(form') # NullIso) =>
        \/ effectPending'
        \/ \E i \in 1..Len(probes') :
              /\ probes'[i].q.barber_id = form'.barber_id
              /\ ~probes'[i].superseded]_vars

-----------------------------------------------------------------------------
\* The filter with every response delivered in the end

\* nothing is scheduled and no request of the effect or of the catalog load
\* is in flight
Quiescent ==
  /\ ~effectPending
  /\ probes = <<>>
  /\ passes = <<>>
  /\ catalogReq = "done"

\* the effect of a render runs, and every request is answered
SpecFilterFair ==
  /\ SpecFilter
  /\ WF_vars(availabilityEffect)
  /\ WF_vars(\E i \in 1..Len(probes), o \in ProbeOutcomes : checkAvailabilityDone(i, o))
  /\ WF_vars(\E i \in 1..Len(passes) :
               \E outcomes \in [1..Len(passes[i].allBarbers) -> ProbeOutcomes] :
                  filterDone(i, outcomes))
  /\ WF_vars(\E o \in {"ok", "failed"} : fetchCatalogDone(o))

\* C18: a filter pass ends when it applies its result, and applying it,
\* with or without a reassignment of the selection, schedules no run of the
\* effect, starts no pass and issues no probe; the same holds for the pass
\* the effect completes on the spot.  Once the user has stopped editing, the
\* system comes to rest with no request in flight and stays there.
C18_ReassignmentTerminates ==
  /\ [][/\ \A i \in 1..Len(passes) :
             \A outcomes \in [1..Len(passes[i].allBarbers) -> ProbeOutcomes] :
                filterDone(i, outcomes) =>
                  /\ ~effectPending'
                  /\ probes' = probes
                  /\ Len(passes') = Len(passes) - 1
        /\ availabilityEffect => ~effectPending']_vars
  /\ <>[]Quiescent

\* a pass has reassigned the selection and the system is at rest
C18_Witness ==
  /\ ev = [op |-> "filterDone", outcome |-> "reassigned"]
  /\ Quiescent
  /\ Contains(barbers, form.barber_id)

-----------------------------------------------------------------------------
\* Submissions with nothing but the button to keep them apart

\* the user fills the form and presses the button whenever it is enabled
NextResubmit ==
  \/ availabilityEffect
  \/ /\ ~effectPending
     /\ \/ \E name \in SubmitFields : \E value \in FieldValues(name) : handleChange(name, value)
        \/ \E i \in 1..Len(probes), o \in ProbeOutcomes : checkAvailabilityDone(i, o)
        \/ \E i \in 1..Len(passes) :
              \E outcomes \in [1..Len(passes[i].allBarbers) -> ProbeOutcomes] :
                 filterDone(i, outcomes)
        \/ \E o \in {"ok", "failed"} : fetchCatalogDone(o)
        \/ submit(TRUE)
        \/ \E i \in 1..Len(subs), o \in ProbeOutcomes : submitProbeDone(i, o)
        \/ \E i \in 1..Len(subs), o \in CreateOutcomes : createDone(i, o)
        \/ \E i \in 1..Len(subs), o \in {"ok", "failed"} : submitRefreshDone(i, o)

SpecResubmit == Init /\ [][NextResubmit]_vars

\* C19: at most one submission is in progress, at most one create request
\* is in flight, and loading is true while a submission is verifying or
\* committing.
C19_SubmissionsDoNotOverlap ==
  /\ Len(subs) <= 1
  /\ CreatesInFlight <= 1
  /\ \A i \in 1..Len(subs) : subs[i].pc \in {"verifying", "committing"} => loading

\* the triple a request carries
Triple(r) == <<r.barber_id, r.start_time, r.duration_min>>

\* C20: the final probe of a submission carries the resource, the instant
\* and the duration of the draft at the moment of submit; the create request
\* is sent only when that probe reported available and carries the same
\* triple; no step in between, an edit of the form included, changes what
\* the submission in progress verifies or books.
C20_CreateCarriesVerifiedTriple ==
  [][/\ \A v \in BOOLEAN :
          (submit(v) /\ Len(subs') = Len(subs) + 1) =>
            Triple(ProbeParams(subs'[Len(subs')])) =
              <<form.barber_id, startIsoOf(form), duration_min(form, services)>>
     /\ \A i \in 1..Len(subs) : \A o \in ProbeOutcomes :
          (submitProbeDone(i, o) /\ CreatesInFlight' = CreatesInFlight + 1) =>
            /\ o = "available"
            /\ subs'[i].pc = "committing"
            /\ Triple(Payload(subs'[i])) = Triple(ProbeParams(subs[i]))
     /\ (Len(subs) = 1 /\ Len(subs') = 1) =>
            /\ ProbeParams(subs'[1]) = ProbeParams(subs[1])
            /\ Payload(subs'[1]) = Payload(subs[1])
     /\ CreatesInFlight' > CreatesInFlight =>
            \E i \in 1..Len(subs) : submitProbeDone(i, "available")]_vars

\* a create request is in flight and the user has changed the time since
C20_Witness ==
  \E i \in 1..Len(subs) :
     /\ subs[i].pc = "committing"
     /\ Payload(subs[i]).start_time # startIsoOf(form)
     /\ startIsoOf(form) # NullIso

====
